---- MODULE Spec2Model ----
(***************************************************************************)
(* Collection report (src/9716.py): the cache loader, the per-session      *)
(* reconciler/aggregator get_rows, and the coordinator in main, as a state *)
(* machine over successive runs of the program against a record store      *)
(* whose sessions grow and finalize between runs.                          *)
(*                                                                         *)
(* Cell values are tagged tuples so that Python's bool / int / str / None  *)
(* keep their identity through truthiness, ==, str() and the workbook:     *)
(*   <<"none">>, <<"bool", b>>, <<"int", n>>, <<"str", s>>.                *)
(* A dict is a function whose DOMAIN is its key set; d.get(k) is Get(d,k). *)
(***************************************************************************)
EXTENDS Integers, Sequences, FiniteSets, TLC

\* ------------------------------------------------------------------ bounds
\* The largest number of items the collection app gives a session, and of
\* items of a drawn session.
MaxItems == 1

\* The sessions of the project (session.name, the directory name).
Sessions == {"s1", "s2"}

\* ------------------------------------------------------------------ values
None == <<"none">>
VBool(b) == <<"bool", b>>
VInt(n) == <<"int", n>>
VStr(s) == <<"str", s>>

\* Python truthiness of a cell value (the `or` / `not` tests of get_rows).
Truthy(v) ==
    CASE v[1] = "bool" -> v[2]
      [] v[1] = "int"  -> v[2] # 0
      [] v[1] = "str"  -> v[2] # ""
      [] OTHER         -> FALSE

\* Python == between a cell value and an int (bool is a subtype of int).
PyEqInt(v, n) ==
    CASE v[1] = "int"  -> v[2] = n
      [] v[1] = "bool" -> (IF v[2] THEN 1 ELSE 0) = n
      [] OTHER         -> FALSE

\* str(value)
StrOf(v) ==
    CASE v[1] = "bool" -> (IF v[2] THEN "True" ELSE "False")
      [] v[1] = "int"  -> ToString(v[2])
      [] v[1] = "str"  -> v[2]
      [] OTHER         -> "None"

\* str.strip(): the strings of the model that begin or end with whitespace are
\* " usa" and "usa "; strip() removes nothing from any other.
Strip(str) ==
    CASE str = " usa" -> "usa"
      [] str = "usa " -> "usa"
      [] OTHER        -> str

\* str(value).strip()
PyStr(v) == Strip(StrOf(v))

Get(d, k) == IF k \in DOMAIN d THEN d[k] ELSE None

Range(seq) == {seq[i] : i \in 1..Len(seq)}

Max(S) == CHOOSE x \in S : \A y \in S : y <= x

\* dict(zip(heads, cells)): positional pairing, truncated to the shorter of the
\* two, a repeated head keeping the cell paired with its last occurrence.
Zip(heads, cells) ==
    LET n == IF Len(heads) < Len(cells) THEN Len(heads) ELSE Len(cells)
    IN  [h \in {heads[j] : j \in 1..n} |->
            cells[Max({j \in 1..n : heads[j] = h})]]

\* dict.update / item assignment: the keys of e override those of d.
Update(d, e) ==
    [k \in DOMAIN d \cup DOMAIN e |-> IF k \in DOMAIN e THEN e[k] ELSE d[k]]

\* ------------------------------------------------------------ record store
\* An item (File record) is one of these kinds; the kind fixes the attributes
\* the program reads from the item, its latest Stat and its file on disk.
ItemKinds == {"recording", "rejected", "image", "unmapped", "noexif"}

\* The items the collection app appends in the scheduled runs: an image whose
\* corpus code is not one of the three the photo loop names, and an image
\* without EXIF.
EnvKinds == {"unmapped", "noexif"}

\* The image items the photo loop is followed on: JPEG images with embedded GPS
\* ("gps": both coordinates; "gps0": latitude 0; "gps0lng": latitude 0 and a
\* device location that has a longitude only; "gpshalf": a latitude of half an
\* arc-second; "gpsdiv0": a latitude whose seconds are 0/0), without GPS
\* ("nogps", "image"), and HEIF images with and without an Exif metadata block.
PhotoKinds ==
    {"image", "gps", "gps0", "gps0lng", "gpshalf", "gpsdiv0", "nogps", "heic", "heic_bare"}

\* File.attributes["prompttype"] / file.prompt_type
PromptType(k) == IF k \in {"recording", "rejected"} THEN "recording" ELSE "image"

\* file.prompt.corpus_code
CorpusCode(k) ==
    CASE k = "image"    -> "1image3"
      [] k = "unmapped" -> "9image9"
      [] k = "noexif"   -> "1image1"
      [] k \in {"gps", "gps0", "gps0lng", "gpshalf", "gpsdiv0", "nogps"} -> "1image1"
      [] k \in {"heic", "heic_bare"} -> "1image2"
      [] OTHER          -> "1rec1"

\* The reasons validate(stat.json, schema).get_reasons() gives for the item's
\* latest Stat: a "rejected" recording fails the schema's snr property.
Reasons(k) == IF k = "rejected" THEN <<"snr">> ELSE <<>>

\* stat.json.get(head) for a recording; image stats carry no top-level field.
StatValue(k, head) ==
    IF PromptType(k) = "recording" /\ head = "snr"
    THEN (IF k = "rejected" THEN VInt(3) ELSE VInt(30))
    ELSE None

\* Whether Image.open(...).info["exif"] succeeds: an image without an EXIF
\* block raises KeyError, which get_rows re-raises.
HasExif(k) == k # "noexif"

\* Whether Image.open raises UnidentifiedImageError (a HEIF file), which sends
\* the loop to pyheif.read_heif; and whether the HEIF file's metadata holds a
\* block of type "Exif".
Heif(k) == k \in {"heic", "heic_bare"}
HeifExifBlock(k) == k = "heic"

\* A float number of degrees, held exactly as its number of arc-seconds: whole
\* arc-seconds plus num / den of one, in lowest terms (0 / 1 when there is no
\* fraction). The float the code computes is this number rounded to a double.
VDeg(whole, num, den) == <<"deg", whole, num, den>>

\* The float of a whole number of degrees.
Degrees(n) == VDeg(n * 3600, 0, 1)

\* A GPS coordinate as EXIF stores it: degrees, minutes, seconds, each a
\* (numerator, denominator) pair.
Dms(d, m, s) == << <<d, 1>>, <<m, 1>>, <<s, 1>> >>

\* exif["GPS"] latitude and longitude of the file (None where the tag is absent).
GpsLatitude(k) ==
    CASE k = "gps"                 -> Dms(10, 30, 0)
      [] k \in {"gps0", "gps0lng"} -> Dms(0, 0, 0)
      [] k = "gpshalf"             -> << <<0, 1>>, <<0, 1>>, <<1, 2>> >>
      [] k = "gpsdiv0"             -> << <<10, 1>>, <<30, 1>>, <<0, 0>> >>
      [] OTHER                     -> None

GpsLongitude(k) ==
    IF k \in {"gps", "gps0", "gps0lng", "gpshalf", "gpsdiv0"}
    THEN Dms(20, 0, 36) ELSE None

\* file.attributes.get("deviceinfo"): [null] says it is None, and location maps
\* the keys the device reported ("latitude", "longitude") to their values.
DeviceInfoOf(k) ==
    CASE k \in {"gps", "gps0", "gpshalf", "gpsdiv0", "nogps"} ->
            [null |-> FALSE,
             location |-> [c \in {"latitude", "longitude"} |->
                              IF c = "latitude" THEN Degrees(5) ELSE Degrees(6)]]
      [] k = "gps0lng" ->
            [null |-> FALSE, location |-> [c \in {"longitude"} |-> Degrees(6)]]
      [] OTHER -> [null |-> TRUE, location |-> [c \in {} |-> None]]

FileName(i) == "f" \o ToString(i)

PinOf(s) == VStr("pin-" \o s)
\* The submitter's e-mail as stored: it carries a control character (a tab).
EmailOf(s) == VStr("a\tb@" \o s)
CreatedOf(s) == VStr("2020-01-01")
\* session.duration, recorded for every session of the model.
DurationOf(s) == VInt(60)

\* ----------------------------------------------------------------- headers
\* SESSION_HEADERS as the module defines it.
BaseSessionHeaders ==
    << "Directory Name", "Pin", "Total items", "Recorded items", "Skipped items",
       "Rejected items", "Duration", "Date", "Completed", "Abandoned", "Email",
       "Device IP", "Device ID", "Device Model", "Device OS", "Country",
       "Country Code", "Region", "Region Name" >>

BaseStatHeaders == << "Session", "File", "Reason" >>

PhotoSuffixes == << "_photo_exif", "_photo_url", "_photo_lat", "_photo_lng" >>

PhotoHeaders(name) == [j \in 1..4 |-> name \o PhotoSuffixes[j]]

\* The schema's properties, sorted (args.schema["properties"]).
SchemaProps == << "snr" >>

\* The header lists main builds before it loads the cache: the base list, the
\* three photo groups and the requested prompt attributes; the stat list is the
\* base list and the schema's properties. (The run configuration of the model
\* sets no demographics, script categories, inputs, bluetooth or median mode.)
SessionHeadersFor(a) ==
    BaseSessionHeaders \o PhotoHeaders("ev_station") \o PhotoHeaders("user_interface")
        \o PhotoHeaders("plug") \o a.prompt_attributes

StatHeadersFor(a) ==
    IF a.schema THEN BaseStatHeaders \o SchemaProps ELSE BaseStatHeaders

\* ---------------------------------------------------------------- workbook
\* A report file: the rows appended to its Sessions and Stats sheets.
NoFile == [exists |-> FALSE, sessions |-> <<>>, stats |-> <<>>]

\* Workbook.save: the two sheets as appended (cells holding None are not stored).
SavedWorkbook(sessionRows, statRows) ==
    [exists |-> TRUE, sessions |-> sessionRows, stats |-> statRows]

\* The index of the last stored (non-None) cell of a row, 0 for an empty row.
LastStored(row) == Max({0} \cup {j \in 1..Len(row) : row[j] # None})

\* Iterating a loaded sheet: every row comes back with one cell per column up to
\* the sheet's widest stored row, the cells never stored reading as None.
ReadSheet(rows) ==
    LET width == Max({0} \cup {LastStored(rows[i]) : i \in 1..Len(rows)})
    IN  [i \in 1..Len(rows) |->
            [j \in 1..width |-> IF j <= Len(rows[i]) THEN rows[i][j] ELSE None]]

\* The str key of a header cell of the Stats sheet.
HeadName(v) == IF v[1] = "str" THEN v[2] ELSE ""

EmptyMap == [k \in {} |-> None]

\* A loader that discards a report with other headers without copying it.
TryGetCachedSessionsNoCopy(file, session_headers) ==
    IF ~file.exists
    THEN [sessions |-> EmptyMap, backup |-> FALSE]
    ELSE
    LET rows == ReadSheet(file.sessions)
        srows == ReadSheet(file.stats)
        entry(i) == Zip(session_headers, rows[i])
        data == {i \in 2..Len(rows) :
                    \E h \in DOMAIN entry(i) : entry(i)[h] # None}
        keys == {entry(i)["Directory Name"] : i \in data}
        ws_heads == [j \in 1..Len(srows[1]) |-> HeadName(srows[1][j])]
        stat(i) == Zip(ws_heads, srows[i])
        owned(k) == SelectSeq([i \in 1..Len(srows) |-> i],
                        LAMBDA i : /\ i >= 2
                                   /\ \E h \in DOMAIN stat(i) : stat(i)[h] # None
                                   /\ stat(i)["Session"] = k)
    IN  IF Len(rows) = 0
        THEN [sessions |-> EmptyMap, backup |-> FALSE]
        ELSE IF Range(rows[1]) # {VStr(h) : h \in Range(session_headers)}
        THEN [sessions |-> EmptyMap, backup |-> FALSE]
        ELSE [sessions |->
                [k \in keys |->
                    [Session |-> entry(Max({i \in data : entry(i)["Directory Name"] = k})),
                     Stats   |-> [n \in 1..Len(owned(k)) |-> stat(owned(k)[n])]]],
              backup |-> FALSE]

\* try_get_cached_sessions(report_path): the cache map, and whether the report
\* was copied to report_path + ".bak".
TryGetCachedSessions(file, session_headers) ==
    IF ~file.exists
    THEN [sessions |-> EmptyMap, backup |-> FALSE]
    ELSE
    LET rows == ReadSheet(file.sessions)
        srows == ReadSheet(file.stats)
        entry(i) == Zip(session_headers, rows[i])
        data == {i \in 2..Len(rows) :
                    \E h \in DOMAIN entry(i) : entry(i)[h] # None}
        keys == {entry(i)["Directory Name"] : i \in data}
        ws_heads == [j \in 1..Len(srows[1]) |-> HeadName(srows[1][j])]
        stat(i) == Zip(ws_heads, srows[i])
        owned(k) == SelectSeq([i \in 1..Len(srows) |-> i],
                        LAMBDA i : /\ i >= 2
                                   /\ \E h \in DOMAIN stat(i) : stat(i)[h] # None
                                   /\ stat(i)["Session"] = k)
    IN  IF Len(rows) = 0
        THEN [sessions |-> EmptyMap, backup |-> FALSE]
        ELSE IF Range(rows[1]) # {VStr(h) : h \in Range(session_headers)}
        THEN [sessions |-> EmptyMap, backup |-> TRUE]
        ELSE [sessions |->
                [k \in keys |->
                    [Session |-> entry(Max({i \in data : entry(i)["Directory Name"] = k})),
                     Stats   |-> [n \in 1..Len(owned(k)) |-> stat(owned(k)[n])]]],
              backup |-> FALSE]

\* -------------------------------------------------------------- aggregator
RECURSIVE JoinComma(_)
JoinComma(strs) ==
    IF Len(strs) = 0 THEN ""
    ELSE IF Len(strs) = 1 THEN strs[1]
    ELSE strs[1] \o "," \o JoinComma(Tail(strs))

RecordedTypes == {"recording", "video", "image"}

\* File.attributes["skipped"] == "true": no item of the model is skipped.
Skipped(k) == FALSE

\* The StatRow process_files builds for item i of the session.
StatRowOf(s, i, k, stat_headers) ==
    LET extra == {stat_headers[j] : j \in 4..Len(stat_headers)}
        present == {h \in extra : StatValue(k, h) # None}
    IN  [h \in {"Session", "File", "Reason"} \cup present |->
            CASE h = "Session" -> VStr(s)
              [] h = "File"    -> VStr(FileName(i))
              [] h = "Reason"  -> VStr(JoinComma(Reasons(k)))
              [] OTHER         -> StatValue(k, h)]

\* process_files(session, schema, stat_headers): the item counts and the
\* StatRows of the items whose latest Stat fails the schema. The function
\* queries the store twice: counted are the session's items as the file_counts
\* query (lines 186-197) sees them, listed as the file_paths query (lines
\* 203-211) sees them.
ProcessFiles(s, counted, listed, schema, stat_headers) ==
    LET inScope(items, i) == /\ PromptType(items[i]) \in RecordedTypes
                             /\ ~Skipped(items[i])
        failing == SelectSeq([i \in 1..Len(listed) |-> i],
                       LAMBDA i : inScope(listed, i) /\ schema /\ Reasons(listed[i]) # <<>>)
    IN  [total_items    |-> Len(counted),
         skipped_items  |-> Cardinality({i \in 1..Len(counted) : Skipped(counted[i])}),
         recorded_items |-> Cardinality({i \in 1..Len(counted) : inScope(counted, i)}),
         rejected_items |-> Len(failing),
         stat_rows      |-> [n \in 1..Len(failing) |->
                                StatRowOf(s, failing[n], listed[failing[n]], stat_headers)]]

\* process_files on any files. A File of a session is a record
\* [name, prompttype, skipped, corpuscode, stats]: skipped is the text of
\* attributes["skipped"], and stats are the Stats stored for the file's path,
\* oldest first. A Stat is a record [reasons, values]: what
\* validate(stat.json, schema).get_reasons() gives for it, and the top-level
\* fields of stat.json.
OldestStat(file) == file.stats[1]

\* Stat.query ... order_by(Stat.created.desc()).first()
LatestStat(file) == file.stats[Len(file.stats)]

\* The files of the file_paths query: a recorded type, not skipped.
InScope(file) == file.prompttype \in RecordedTypes /\ file.skipped = "false"

\* The value of a stat header for a file: a recording reads the top-level field
\* (the headers of the model are top-level names, which no "<type>/" branch
\* matches for a video or an image).
StatField(file, stat, head) ==
    IF file.prompttype = "recording" THEN Get(stat.values, head) ELSE None

\* reasons_dict of a file whose latest Stat fails.
ReasonsDict(s, file, stat_headers) ==
    LET stat == LatestStat(file)
        present == {stat_headers[j] : j \in 4..Len(stat_headers)}
        carried == {h \in present : StatField(file, stat, h) # None}
    IN  [h \in {"Session", "File", "Reason"} \cup carried |->
            CASE h = "Session" -> VStr(s)
              [] h = "File"    -> VStr(file.name)
              [] h = "Reason"  -> VStr(JoinComma(stat.reasons))
              [] OTHER         -> StatField(file, stat, h)]

\* process_files(session, schema, stat_headers, exclude_corpus_codes,
\* median_stats): schema is TRUE when a schema is given. missing_stats is 0
\* where the code leaves the key out of item_stats; samples maps each stat
\* header to the list median mode collects for it.
ProcessFilesOf(s, files, schema, stat_headers, exclude_corpus_codes, median_stats) ==
    LET idx == [i \in 1..Len(files) |-> i]
        validated(i) == /\ InScope(files[i])
                        /\ schema
                        /\ files[i].corpuscode \notin exclude_corpus_codes
        hasStat(i) == files[i].stats # <<>>
        fails(i) == validated(i) /\ hasStat(i) /\ LatestStat(files[i]).reasons # <<>>
        failing == SelectSeq(idx, fails)
        sampled(h) == SelectSeq(idx,
                          LAMBDA i : /\ validated(i) /\ hasStat(i) /\ median_stats
                                     /\ StatField(files[i], LatestStat(files[i]), h) # None)
    IN  [total_items    |-> Len(files),
         skipped_items  |-> Cardinality({i \in 1..Len(files) : files[i].skipped = "true"}),
         recorded_items |-> Cardinality({i \in 1..Len(files) : InScope(files[i])}),
         rejected_items |-> Len(failing),
         missing_stats  |-> Cardinality({i \in 1..Len(files) :
                                            validated(i) /\ ~hasStat(i)}),
         samples        |-> [h \in {stat_headers[j] : j \in 4..Len(stat_headers)} |->
                                [n \in 1..Len(sampled(h)) |->
                                    StatField(files[sampled(h)[n]],
                                              LatestStat(files[sampled(h)[n]]), h)]],
         stat_rows      |-> [n \in 1..Len(failing) |->
                                ReasonsDict(s, files[failing[n]], stat_headers)]]

\* A float, held as its number of thousandths (x / 1000 of an int x is exact).
VFloat(thousandths) == <<"float", thousandths>>

\* The duration query of one video file under suppress(TypeError). The file's
\* durations are json["video"]["duration"] of each Stat stored for its path
\* (None when the Stat has no such value), oldest first. one_or_none() gives
\* None for no Stat, whose [0] is a TypeError that is suppressed; it raises
\* MultipleResultsFound, which nothing catches, for more than one Stat.
FileDuration(file) ==
    IF Len(file.durations) = 0 THEN [raised |-> FALSE, ms |-> 0]
    ELSE IF Len(file.durations) > 1 THEN [raised |-> TRUE, ms |-> 0]
    ELSE [raised |-> FALSE,
          ms |-> IF file.durations[1] = None THEN 0 ELSE file.durations[1][2]]

RECURSIVE SumMs(_)
SumMs(files) ==
    IF files = <<>> THEN 0 ELSE FileDuration(Head(files)).ms + SumMs(Tail(files))

\* session_duration of the recompute path: session.duration when it is not
\* None, else 0.0 plus file_duration / 1000 over the session's video files;
\* raised says the exception of a duration query left get_rows.
SessionDuration(duration, files) ==
    IF duration # None THEN [raised |-> FALSE, value |-> duration]
    ELSE LET videos == SelectSeq(files, LAMBDA f : f.prompttype = "video")
         IN  IF \E i \in 1..Len(videos) : FileDuration(videos[i]).raised
             THEN [raised |-> TRUE, value |-> None]
             ELSE [raised |-> FALSE, value |-> VFloat(SumMs(videos))]

\* The session_row dict get_rows builds on the recompute path (the session of the
\* model has no prompts and no device info, so no further key is set).
ComputedRow(s, sess, item_stats) ==
    [h \in {"Directory Name", "Pin", "Total items", "Recorded items", "Skipped items",
            "Rejected items", "Duration", "Date", "Completed", "Abandoned", "Email"} |->
        CASE h = "Directory Name" -> VStr(s)
          [] h = "Pin"            -> PinOf(s)
          [] h = "Total items"    -> VInt(item_stats.total_items)
          [] h = "Recorded items" -> VInt(item_stats.recorded_items)
          [] h = "Skipped items"  -> VInt(item_stats.skipped_items)
          [] h = "Rejected items" -> VInt(item_stats.rejected_items)
          [] h = "Duration"       -> DurationOf(s)
          [] h = "Date"           -> CreatedOf(s)
          [] h = "Completed"      -> VBool(sess.completed)
          [] h = "Abandoned"      -> VBool(sess.abandoned)
          [] OTHER                -> EmailOf(s)]

\* session.prompts of the sessions of the record store above: they have none.
PromptsOf(s) == <<>>

\* The prompt-attribute loop of the recompute path. A prompt is a record
\* [null, attributes]: null says prompt.attributes is None, and attributes maps
\* the keys the prompt carries to their values. Every prompt with attributes
\* assigns every requested key, attributes.get(key) being None for a key the
\* prompt does not carry; the loop stops after a prompt that leaves every
\* requested key truthy.
RECURSIVE PromptAttributes(_, _, _)
PromptAttributes(session_row, prompts, prompt_attributes) ==
    IF prompts = <<>> THEN session_row
    ELSE IF Head(prompts).null
    THEN PromptAttributes(session_row, Tail(prompts), prompt_attributes)
    ELSE LET attributes == Head(prompts).attributes
             assigned == Update(session_row,
                                [k \in Range(prompt_attributes) |-> Get(attributes, k)])
         IN  IF \A k \in Range(prompt_attributes) : Truthy(Get(assigned, k))
             THEN assigned
             ELSE PromptAttributes(assigned, Tail(prompts), prompt_attributes)

\* A decision without the forced recompute of a session that finalized since
\* the cached run.
CacheHitNoTransitionGuard(entry, total_items, sess) ==
    \/ Truthy(entry.Session["Completed"])
    \/ Truthy(entry.Session["Abandoned"])
    \/ PyEqInt(entry.Session["Total items"], total_items)

\* The reconciler's decision, as get_rows nests it: a cached entry is a
\* candidate when it is completed, abandoned or has the live item count, and
\* the candidate is dropped when the cache shows the session open and the live
\* session is finalized.
CacheHit(entry, total_items, sess) ==
    IF \/ Truthy(entry.Session["Completed"])
       \/ Truthy(entry.Session["Abandoned"])
       \/ PyEqInt(entry.Session["Total items"], total_items)
    THEN IF /\ (~Truthy(entry.Session["Completed"]) /\ ~Truthy(entry.Session["Abandoned"]))
            /\ (sess.completed \/ sess.abandoned)
         THEN FALSE
         ELSE TRUE
    ELSE FALSE

\* The cached row and stat rows remapped onto the current header lists.
RemapRow(cached, heads) == [h \in Range(heads) |-> Get(cached, h)]

\* A hit that returns no stat row.
RemapStatsLost(cachedStats, stat_headers) == <<>>

RemapStats(cachedStats, stat_headers) ==
    [n \in 1..Len(cachedStats) |-> RemapRow(cachedStats[n], stat_headers)]

\* The substitution loop: every key of the table that is a key of the row is
\* replaced by the table's entry for str(value).strip(), a missing entry
\* (KeyError) leaving the value as it is.
\* A substitution loop that looks the string form up as it is.
SubstituteUnstripped(row, substitutions) ==
    [k \in DOMAIN row |->
        IF k \in DOMAIN substitutions /\ StrOf(row[k]) \in DOMAIN substitutions[k]
        THEN substitutions[k][StrOf(row[k])]
        ELSE row[k]]

Substitute(row, substitutions) ==
    [k \in DOMAIN row |->
        IF k \in DOMAIN substitutions /\ PyStr(row[k]) \in DOMAIN substitutions[k]
        THEN substitutions[k][PyStr(row[k])]
        ELSE row[k]]

\* The prompt name of an image item, from its corpus code.
PromptName(code) ==
    CASE code = "1image1" -> "ev_station"
      [] code = "1image2" -> "user_interface"
      [] code = "1image3" -> "plug"
      [] OTHER            -> "missing_prompt"

RECURSIVE Gcd(_, _)
Gcd(a, b) == IF b = 0 THEN a ELSE Gcd(b, a % b)

\* The quotient a / b as whole arc-seconds and a fraction in lowest terms.
ArcSeconds(a, b) ==
    [whole |-> a \div b,
     num   |-> (a % b) \div Gcd(a % b, b),
     den   |-> b \div Gcd(a % b, b)]

\* The sum of two such numbers.
AddArcSeconds(p, q) ==
    LET l == (p.den \div Gcd(p.den, q.den)) * q.den
        n == p.num * (l \div p.den) + q.num * (l \div q.den)
        g == Gcd(n % l, l)
    IN  [whole |-> p.whole + q.whole + n \div l,
         num   |-> (n % l) \div g,
         den   |-> l \div g]

\* What parse_lng_lat gives when a denominator is 0: the division raises.
ZeroDivisionError == <<"raise", "ZeroDivisionError">>

\* parse_lng_lat(x): degrees + minutes / 60 + seconds / 3600, each of the three
\* a numerator divided by a denominator (true division).
ParseLngLat(x) ==
    IF x[1][2] = 0 \/ x[2][2] = 0 \/ x[3][2] = 0 THEN ZeroDivisionError
    ELSE LET sum == AddArcSeconds(AddArcSeconds(ArcSeconds(x[1][1] * 3600, x[1][2]),
                                                ArcSeconds(x[2][1] * 60, x[2][2])),
                                  ArcSeconds(x[3][1], x[3][2]))
         IN  VDeg(sum.whole, sum.num, sum.den)

\* The truthiness of a coordinate in all([lat, lng]): None and 0.0 are false.
TruthyCoordinate(v) == v # None /\ ~(v[2] = 0 /\ v[3] = 0)

\* lat and lng as the photo loop computes them. Under suppress(TypeError) the latitude is
\* parsed, then the longitude; parsing None raises TypeError, which leaves the
\* rest of the block undone, and a ZeroDivisionError is not suppressed: it
\* leaves get_rows (raised). When device_info is not None and lat or lng is
\* falsy, under suppress(KeyError) lng is read from the device location, then
\* lat; a missing key leaves the rest of the block undone.
Coordinates(exif, device_info) ==
    LET lat0 == IF exif.lat = None THEN None ELSE ParseLngLat(exif.lat)
        lng0 == IF exif.lat = None \/ exif.lng = None THEN None ELSE ParseLngLat(exif.lng)
        loc == device_info.location
        fallback == ~device_info.null /\ ~(TruthyCoordinate(lat0) /\ TruthyCoordinate(lng0))
        hasLng == fallback /\ "longitude" \in DOMAIN loc
        hasLat == hasLng /\ "latitude" \in DOMAIN loc
    IN  IF lat0 = ZeroDivisionError \/ lng0 = ZeroDivisionError
        THEN [raised |-> TRUE, lat |-> None, lng |-> None]
        ELSE [raised |-> FALSE,
              lat |-> IF hasLat THEN loc["latitude"] ELSE lat0,
              lng |-> IF hasLng THEN loc["longitude"] ELSE lng0]

\* The local variable exif of get_rows: the metadata piexif.load returned, with
\* the file it was decoded from; Unbound before the first assignment.
Unbound == [of |-> "unbound", lat |-> None, lng |-> None]

\* The metadata of file i of session s.
ExifOf(s, i, k) ==
    [of |-> s \o "-" \o FileName(i), lat |-> GpsLatitude(k), lng |-> GpsLongitude(k)]

\* exif after the try statement of lines 619-633: the primary path and a HEIF
\* file with an Exif block assign it; a HEIF file without one leaves it as the
\* previous iteration left it.
ExifAfterDecode(exif, s, i, k) ==
    IF Heif(k) /\ ~HeifExifBlock(k) THEN exif ELSE ExifOf(s, i, k)

\* The four photo columns written for an image item from the variable exif: the
\* serialized exif_data, the checksum of the item's file, and the coordinates.
PhotoCellsFrom(s, i, k, exif) ==
    LET name == PromptName(CorpusCode(k))
        at == Coordinates(exif, DeviceInfoOf(k))
    IN  [h \in Range(PhotoHeaders(name)) |->
            CASE h = name \o "_photo_exif" -> VStr("exif-" \o exif.of)
              [] h = name \o "_photo_url"  -> VStr("md5-" \o s \o "-" \o FileName(i))
              [] h = name \o "_photo_lat"  -> at.lat
              [] OTHER                     -> at.lng]

\* The four photo columns of an image item whose metadata is its own.
PhotoCells(s, i, k) == PhotoCellsFrom(s, i, k, ExifOf(s, i, k))

\* The coordinator's value clean-up: code points below 32 are removed from str
\* values (the only such value of the model is the tab of the e-mail).
StripCtl(str) ==
    IF \E s \in Sessions : str = "a\tb@" \o s
    THEN "ab@" \o (CHOOSE s \in Sessions : str = "a\tb@" \o s)
    ELSE str

Sanitize(v) == IF v[1] = "str" THEN VStr(StripCtl(v[2])) ELSE v

\* The list of values the coordinator appends for a row under a header list.
RowValues(row, heads) == [j \in 1..Len(heads) |-> Sanitize(Get(row, heads[j]))]

StatValues(stat_row, stat_headers) ==
    [j \in 1..Len(stat_headers) |-> Get(stat_row, stat_headers[j])]

\* ------------------------------------------------------------ configuration
\* The substitution tables of the model's runs: none, and the display table
\* that spells the Completed flag out.
NoSubstitutions == EmptyMap

YesNoSubstitutions ==
    [c \in {"Completed"} |->
        [k \in {"True", "False"} |-> IF k = "True" THEN VStr("Yes") ELSE VStr("No")]]

SubstitutionTables == {NoSubstitutions, YesNoSubstitutions}

\* The command lines of the model: --from_scratch, --substitutions,
\* --prompt_attributes, --schema (always given).
ArgChoices ==
    {a \in [from_scratch : BOOLEAN,
            substitutions : SubstitutionTables,
            prompt_attributes : {<<>>, <<"topic">>},
            schema : {TRUE}] :
        /\ a.from_scratch => (a.substitutions = NoSubstitutions /\ a.prompt_attributes = <<>>)
        /\ a.prompt_attributes # <<>> => a.substitutions = NoSubstitutions}

\* The command lines of the scheduled runs: the same one at every run.
ScheduledArgs == {a \in ArgChoices : ~a.from_scratch /\ a.prompt_attributes = <<>>}

DefaultArgs ==
    [from_scratch |-> FALSE, substitutions |-> NoSubstitutions,
     prompt_attributes |-> <<>>, schema |-> TRUE]

\* ------------------------------------------------------------------- state
VARIABLES
    live,         \* record store: session name -> items, completed, abandoned
    fs,           \* the report file and its .bak sibling
    pc,           \* the coordinator: idle, pool, saved, aborted
    args,         \* the command line of the current (or last) run
    headers,      \* SESSION_HEADERS, the module-level list
    statHeaders,  \* STAT_HEADERS, the module-level list
    cache,        \* the map try_get_cached_sessions returned
    task,         \* one future per session: position, cache_hit, session_row, stat_rows
    wsSessions,   \* rows appended to the Sessions sheet of the new workbook
    wsStats,      \* rows appended to the Stats sheet of the new workbook
    drained,      \* the futures the coordinator has taken from as_completed
    rowOrigin,    \* history: the live state each row of the report was computed from
    since,        \* history: whether data or command line changed since the run of
                  \* the last save started ("fresh": not since this run started)
    call          \* one call of a function of the program: its arguments and result

vars == << live, fs, pc, args, headers, statHeaders, cache, task, wsSessions,
           wsStats, drained, rowOrigin, since, call >>

\* No function is being called on its own: the program runs as a whole.
NoCall == [op |-> "none", done |-> TRUE]

NoOrigin == [n |-> 0, final |-> FALSE]

\* A future that has not been submitted. submitted is the number of items the
\* session had when main submitted the task and open says the session was not
\* yet completed or abandoned then (history, kept until the task has made its
\* queries), total is the count of line 348, and files is
\* sorted(session.files) of line 612.
NoTask == [pc |-> "none", hit |-> FALSE, row |-> EmptyMap, stats |-> <<>>,
           submitted |-> 0, open |-> FALSE, total |-> 0, files |-> <<>>,
           i |-> 0, exif |-> Unbound, src |-> NoOrigin]

NewSession == [items |-> <<>>, completed |-> FALSE, abandoned |-> FALSE]

Finalized(s) == live[s].completed \/ live[s].abandoned

\* No process is running: the state of the process between two runs.
ProcessReset ==
    /\ headers' = BaseSessionHeaders
    /\ statHeaders' = BaseStatHeaders
    /\ cache' = EmptyMap
    /\ task' = [s \in DOMAIN live |-> NoTask]
    /\ wsSessions' = <<>>
    /\ wsStats' = <<>>
    /\ drained' = {}

Init ==
    /\ live = [s \in Sessions |-> NewSession]
    /\ fs = [report |-> NoFile, bak |-> NoFile]
    /\ pc = "idle"
    /\ args \in ScheduledArgs
    /\ headers = BaseSessionHeaders
    /\ statHeaders = BaseStatHeaders
    /\ cache = EmptyMap
    /\ task = [s \in Sessions |-> NoTask]
    /\ wsSessions = <<>>
    /\ wsStats = <<>>
    /\ drained = {}
    /\ rowOrigin = [s \in Sessions |-> NoOrigin]
    /\ since = "changed"
    /\ call = NoCall

\* ------------------------------------------------------------- environment
\* The collection app appends an item to a session that is still open, between
\* two runs or while a run is in progress: the program takes no lock on the
\* record store.
AddItem(s, k) ==
    /\ ~Finalized(s)
    /\ Len(live[s].items) < MaxItems
    /\ live' = [live EXCEPT ![s].items = Append(@, k)]
    /\ since' = "changed"
    /\ UNCHANGED << call, fs, pc, args, headers, statHeaders, cache, task, wsSessions,
                    wsStats, drained, rowOrigin >>

\* The collection app completes or abandons an open session, between two runs
\* or while a run is in progress; from then on the session is immutable.
Finish(s, completed) ==
    /\ ~Finalized(s)
    /\ live' = [live EXCEPT ![s].completed = completed, ![s].abandoned = ~completed]
    /\ since' = "changed"
    /\ UNCHANGED << call, fs, pc, args, headers, statHeaders, cache, task, wsSessions,
                    wsStats, drained, rowOrigin >>

\* ------------------------------------------------------------------ main
\* main up to the end of the submit loop: the header lists are built from the
\* command line, the cache is loaded unless --from_scratch (a header mismatch
\* copying the report to .bak), the header rows are appended to the two sheets
\* of a new workbook, and one get_rows task per session is submitted.
StartRun(a) ==
    LET sh == SessionHeadersFor(a)
        th == StatHeadersFor(a)
        loaded == IF a.from_scratch
                  THEN [sessions |-> EmptyMap, backup |-> FALSE]
                  ELSE TryGetCachedSessions(fs.report, sh)
    IN  /\ pc = "idle"
        /\ args' = a
        /\ since' = IF a = args /\ since = "same" THEN "same" ELSE "fresh"
        /\ headers' = sh
        /\ statHeaders' = th
        /\ cache' = loaded.sessions
        /\ fs' = IF loaded.backup THEN [fs EXCEPT !.bak = fs.report] ELSE fs
        /\ wsSessions' = << [j \in 1..Len(sh) |-> VStr(sh[j])] >>
        /\ wsStats' = << [j \in 1..Len(th) |-> VStr(th[j])] >>
        /\ task' = [s \in DOMAIN live |->
                       [NoTask EXCEPT !.pc = "body",
                                      !.submitted = Len(live[s].items),
                                      !.open = ~Finalized(s)]]
        /\ drained' = {}
        /\ pc' = "pool"
        /\ UNCHANGED << call, live, rowOrigin >>

\* The moments of the session's history at which the reads of one get_rows
\* call can fall. Nothing in the code makes the reads one snapshot of the
\* store. Since the task was submitted the session's items were appended one by
\* one and then, at most once and last, the session was completed or abandoned;
\* moment n is the store with n items and the flags of submission, and the
\* moment after the last item's is the store as it is now when the session was
\* finalized since submission.
Now(s) ==
    IF task[s].open /\ Finalized(s) THEN Len(live[s].items) + 1 ELSE Len(live[s].items)

\* The items and the session's flags as a read at moment n sees them.
ItemsAt(s, n) ==
    SubSeq(live[s].items, 1, IF n > Len(live[s].items) THEN Len(live[s].items) ELSE n)

FlagsAt(s, n) ==
    IF task[s].open /\ n <= Len(live[s].items)
    THEN [completed |-> FALSE, abandoned |-> FALSE]
    ELSE [completed |-> live[s].completed, abandoned |-> live[s].abandoned]

\* The moments of the reads of one get_rows call, in the order the call makes
\* them: the count of line 348, the session's flags at line 359, the
\* file_counts and the file_paths queries of process_files, the session's
\* flags at lines 429-430; session.files of line 612 is read at Now(s). Each
\* read falls no earlier than the submission and than the read before it.
Reads(s) ==
    UNION {UNION {UNION {UNION {
        {[count |-> a, decided |-> b, file_counts |-> c, file_paths |-> d, flags |-> e] :
            e \in d..Now(s)} :
            d \in c..Now(s)} :
            c \in b..Now(s)} :
            b \in a..Now(s)} :
            a \in task[s].submitted..Now(s)}

\* get_rows from its first line to the read of session.files (lines 342-612),
\* run by a worker thread: the decision, then the cached row remapped or the
\* row recomputed, then the substitutions, then the list of files to loop over.
\* With no file to loop over, get_rows returns and the future completes.
TaskBody(s) ==
    /\ pc \in {"pool", "aborted"}
    /\ task[s].pc = "body"
    /\ \E r \in Reads(s) :
            LET sess == FlagsAt(s, r.flags)
                files == live[s].items
                in_cache == VStr(s) \in DOMAIN cache
                total_items == Len(ItemsAt(s, r.count))
                cache_hit == /\ in_cache
                             /\ CacheHit(cache[VStr(s)], total_items, FlagsAt(s, r.decided))
                item_stats == ProcessFiles(s, ItemsAt(s, r.file_counts),
                                           ItemsAt(s, r.file_paths),
                                           args.schema, statHeaders)
                session_row == IF cache_hit
                               THEN RemapRow(cache[VStr(s)].Session, headers)
                               ELSE PromptAttributes(ComputedRow(s, sess, item_stats),
                                                     PromptsOf(s), args.prompt_attributes)
                stat_rows == IF cache_hit
                             THEN RemapStats(cache[VStr(s)].Stats, statHeaders)
                             ELSE item_stats.stat_rows
            IN  /\ task' = [task EXCEPT ![s] =
                              [pc |-> IF files = <<>> THEN "done" ELSE "photo",
                               hit |-> cache_hit,
                               row |-> Substitute(session_row, args.substitutions),
                               stats |-> stat_rows,
                               submitted |-> 0,
                               open |-> FALSE,
                               total |-> IF in_cache THEN total_items ELSE 0,
                               files |-> files,
                               i |-> 1, exif |-> Unbound,
                               src |-> IF cache_hit THEN rowOrigin[s]
                                       ELSE [n |-> item_stats.total_items,
                                             final |-> sess.completed \/ sess.abandoned]]]
                /\ UNCHANGED << call, live, fs, pc, args, headers, statHeaders, cache,
                                wsSessions, wsStats, drained, rowOrigin, since >>

\* One iteration of the photo loop of get_rows (lines 612-685), which runs on a
\* hit and on a miss alike: the "pin" key is set; an image without EXIF raises
\* (KeyError on the primary path, UnboundLocalError when a HEIF file without an
\* Exif block is the first image and exif was never assigned), and so does one
\* whose GPS tag has a zero denominator (ZeroDivisionError);
\* an image with an unmapped corpus code extends SESSION_HEADERS; the four photo
\* columns of the image's prompt name are written. After the last file get_rows
\* returns (session_row, stat_rows) and the future completes.
TaskPhoto(s) ==
    LET i == task[s].i
        k == task[s].files[i]
        name == PromptName(CorpusCode(k))
        withPin == Update(task[s].row, [h \in {"pin"} |-> PinOf(s)])
        exif == ExifAfterDecode(task[s].exif, s, i, k)
        after == IF i = Len(task[s].files) THEN "done" ELSE "photo"
    IN  /\ pc \in {"pool", "aborted"}
        /\ task[s].pc = "photo"
        /\ i <= Len(task[s].files)
        /\ IF PromptType(k) # "image"
           THEN /\ task' = [task EXCEPT ![s].row = withPin, ![s].i = i + 1,
                                        ![s].pc = after]
                /\ UNCHANGED headers
           ELSE IF \/ (~Heif(k) /\ ~HasExif(k))
                   \/ exif = Unbound
                   \/ Coordinates(exif, DeviceInfoOf(k)).raised
           THEN /\ task' = [task EXCEPT ![s] =
                              [NoTask EXCEPT !.pc = "failed", !.hit = task[s].hit]]
                /\ UNCHANGED headers
           ELSE /\ task' = [task EXCEPT ![s].row =
                                            Update(withPin, PhotoCellsFrom(s, i, k, exif)),
                                        ![s].exif = exif,
                                        ![s].i = i + 1, ![s].pc = after]
                /\ headers' = IF name = "missing_prompt"
                                 /\ "missing_prompt" \notin Range(headers)
                              THEN headers \o PhotoHeaders("missing_prompt")
                              ELSE headers
        /\ UNCHANGED << call, live, fs, pc, args, statHeaders, cache, wsSessions, wsStats,
                        drained, rowOrigin, since >>

\* A coordinator that appends rows only for recomputed sessions.
DrainSkipsHit(s) ==
    /\ pc = "pool"
    /\ s \notin drained
    /\ task[s].pc \in {"done", "failed"}
    /\ IF task[s].pc = "failed"
       THEN /\ pc' = "aborted"
            /\ UNCHANGED << wsSessions, wsStats, drained >>
       ELSE /\ wsSessions' = IF task[s].hit THEN wsSessions
                             ELSE Append(wsSessions, RowValues(task[s].row, headers))
            /\ wsStats' = wsStats \o [n \in 1..Len(task[s].stats) |->
                                         StatValues(task[s].stats[n], statHeaders)]
            /\ drained' = drained \cup {s}
            /\ UNCHANGED pc
    /\ UNCHANGED << call, live, fs, args, headers, statHeaders, cache, task, rowOrigin, since >>

\* A coordinator that swallows the exception of a failed task and goes on.
DrainSwallows(s) ==
    /\ pc = "pool"
    /\ s \notin drained
    /\ task[s].pc \in {"done", "failed"}
    /\ IF task[s].pc = "failed"
       THEN /\ drained' = drained \cup {s}
            /\ UNCHANGED << wsSessions, wsStats, pc >>
       ELSE /\ wsSessions' = Append(wsSessions, RowValues(task[s].row, headers))
            /\ wsStats' = wsStats \o [n \in 1..Len(task[s].stats) |->
                                         StatValues(task[s].stats[n], statHeaders)]
            /\ drained' = drained \cup {s}
            /\ UNCHANGED pc
    /\ UNCHANGED << call, live, fs, args, headers, statHeaders, cache, task, rowOrigin, since >>

\* One iteration of the as_completed loop: the coordinator takes a completed
\* future; future.result() re-raises the task's exception, which leaves main
\* before wb.save; otherwise the row's values under SESSION_HEADERS as it is now,
\* and the stat rows' values under STAT_HEADERS, are appended.
Drain(s) ==
    /\ pc = "pool"
    /\ s \notin drained
    /\ task[s].pc \in {"done", "failed"}
    /\ IF task[s].pc = "failed"
       THEN /\ pc' = "aborted"
            /\ UNCHANGED << wsSessions, wsStats, drained >>
       ELSE /\ wsSessions' = Append(wsSessions, RowValues(task[s].row, headers))
            /\ wsStats' = wsStats \o [n \in 1..Len(task[s].stats) |->
                                         StatValues(task[s].stats[n], statHeaders)]
            /\ drained' = drained \cup {s}
            /\ UNCHANGED pc
    /\ UNCHANGED << call, live, fs, args, headers, statHeaders, cache, task, rowOrigin, since >>

\* wb.save(report_path), once every future has been drained. (The runs of the
\* model pass --no_upload.)
Save ==
    /\ pc = "pool"
    /\ drained = DOMAIN live
    /\ fs' = [fs EXCEPT !.report = SavedWorkbook(wsSessions, wsStats)]
    /\ rowOrigin' = [s \in DOMAIN live |-> task[s].src]
    /\ since' = IF since = "changed" THEN "changed" ELSE "same"
    /\ pc' = "saved"
    /\ UNCHANGED << call, live, args, headers, statHeaders, cache, task, wsSessions,
                    wsStats, drained >>

\* The process ends, after a save or after the exception has left main: the
\* executor's with-block has waited for every submitted task.
Exit ==
    /\ pc \in {"saved", "aborted"}
    /\ \A s \in DOMAIN live : task[s].pc \in {"done", "failed"}
    /\ pc' = "idle"
    /\ ProcessReset
    /\ UNCHANGED << call, live, fs, args, rowOrigin, since >>

Start == StartRun(args)
Worker == \E s \in Sessions : TaskBody(s) \/ TaskPhoto(s)
Coordinator == (\E s \in Sessions : Drain(s)) \/ Save \/ Exit
Environment ==
    \/ \E s \in Sessions, k \in EnvKinds : AddItem(s, k)
    \/ \E s \in Sessions, c \in BOOLEAN : Finish(s, c)

Next == Start \/ Worker \/ Coordinator \/ Environment

Spec == Init /\ [][Next]_vars

\* --------------------------------------------------------- one run, any input
\* One run of the program from any prior report and any state of the record
\* store: session s1 is drawn freely, s2 is an open session that is not in the
\* prior report and whose photo loop either passes or raises.
PriorTotals == 0..MaxItems
\* The Completed cell of a saved row: session.completed, or what the
\* substitution table {"True": "Yes", "False": "No"} made of it.
PriorFlags == {VBool(TRUE), VBool(FALSE), VStr("No"), VStr("Yes")}

\* The Completed and Abandoned cells and the rejected count a run can have
\* saved for a session of total items: a session is completed, abandoned or
\* neither, and no more items are rejected than the session holds.
PriorCells(total) ==
    {<<c, a, r>> \in PriorFlags \X {VBool(TRUE), VBool(FALSE)} \X {0, 1} :
        /\ c \in {VBool(TRUE), VStr("Yes")} => a = VBool(FALSE)
        /\ r <= total}

\* A row of a prior report for s1, as a run without substitutions and without
\* prompt attributes wrote it.
PriorRow(total, completed, abandoned, rejected) ==
    RowValues([h \in {"Directory Name", "Pin", "Total items", "Recorded items",
                      "Skipped items", "Rejected items", "Duration", "Date",
                      "Completed", "Abandoned", "Email"} |->
                  CASE h = "Directory Name" -> VStr("s1")
                    [] h = "Pin"            -> PinOf("s1")
                    [] h = "Total items"    -> VInt(total)
                    [] h = "Recorded items" -> VInt(total)
                    [] h = "Skipped items"  -> VInt(0)
                    [] h = "Rejected items" -> VInt(rejected)
                    [] h = "Duration"       -> DurationOf("s1")
                    [] h = "Date"           -> CreatedOf("s1")
                    [] h = "Completed"      -> completed
                    [] h = "Abandoned"      -> abandoned
                    [] OTHER                -> EmailOf("s1")],
              SessionHeadersFor(DefaultArgs))

PriorHeaderRow(heads) == [j \in 1..Len(heads) |-> VStr(heads[j])]

PriorStatRow == << VStr("s1"), VStr("f1"), VStr("snr"), VInt(3) >>

PriorReports ==
    {NoFile}
    \cup {SavedWorkbook(<< PriorHeaderRow(SessionHeadersFor(DefaultArgs)) >>,
                        << PriorHeaderRow(StatHeadersFor(DefaultArgs)) >>)}
    \cup UNION {{SavedWorkbook(<< PriorHeaderRow(SessionHeadersFor(DefaultArgs)),
                                  PriorRow(t, f[1], f[2], f[3]) >>,
                               IF f[3] = 1
                               THEN << PriorHeaderRow(StatHeadersFor(DefaultArgs)),
                                       PriorStatRow >>
                               ELSE << PriorHeaderRow(StatHeadersFor(DefaultArgs)) >>) :
                    f \in PriorCells(t)} : t \in PriorTotals}
    \cup {SavedWorkbook(<< PriorHeaderRow(SessionHeadersFor(DefaultArgs)),
                           PriorRow(1, VBool(TRUE), VBool(FALSE), 0)
                               \o << VStr("exif-s1-f1"), VStr("md5-s1-f1") >> >>,
                        << PriorHeaderRow(StatHeadersFor(DefaultArgs)) >>)}

RECURSIVE SeqsUpTo(_, _)
SeqsUpTo(S, n) ==
    IF n = 0 THEN {<<>>}
    ELSE LET shorter == SeqsUpTo(S, n - 1)
         IN  shorter \cup {Append(q, x) : q \in shorter, x \in S}

DrawnSessions ==
    {[items |-> q, completed |-> f[1], abandoned |-> f[2]] :
        q \in SeqsUpTo(ItemKinds, MaxItems),
        f \in {<<FALSE, FALSE>>, <<TRUE, FALSE>>, <<FALSE, TRUE>>}}

OtherSessions ==
    {[items |-> q, completed |-> FALSE, abandoned |-> FALSE] :
        q \in {<<"rejected">>, <<"rejected", "noexif">>}}

InitOneRun ==
    /\ live \in {[s \in Sessions |-> IF s = "s1" THEN d ELSE o] :
                    d \in DrawnSessions, o \in OtherSessions}
    /\ fs \in {[report |-> r, bak |-> NoFile] : r \in PriorReports}
    /\ pc = "idle"
    /\ args \in ArgChoices
    /\ headers = BaseSessionHeaders
    /\ statHeaders = BaseStatHeaders
    /\ cache = EmptyMap
    /\ task = [s \in Sessions |-> NoTask]
    /\ wsSessions = <<>>
    /\ wsStats = <<>>
    /\ drained = {}
    /\ rowOrigin = [s \in Sessions |-> NoOrigin]
    /\ since = "changed"
    /\ call = NoCall

NextOneRun == Start \/ Worker \/ (\E s \in Sessions : Drain(s)) \/ Save

SpecOneRun == InitOneRun /\ [][NextOneRun]_vars

\* The project the scheduled runs are followed on for progress: s1 is a new
\* session, s2 was completed without an item before the first run.
InitScheduled ==
    /\ live = [s \in Sessions |->
                 IF s = "s1" THEN NewSession ELSE [NewSession EXCEPT !.completed = TRUE]]
    /\ fs = [report |-> NoFile, bak |-> NoFile]
    /\ pc = "idle"
    /\ args \in ScheduledArgs
    /\ headers = BaseSessionHeaders
    /\ statHeaders = BaseStatHeaders
    /\ cache = EmptyMap
    /\ task = [s \in Sessions |-> NoTask]
    /\ wsSessions = <<>>
    /\ wsStats = <<>>
    /\ drained = {}
    /\ rowOrigin = [s \in Sessions |-> NoOrigin]
    /\ since = "changed"
    /\ call = NoCall

\* The scheduled runs with the progress the program's scheduling gives them:
\* every submitted task runs to its end, the coordinator drains every completed
\* future, saves, and the process ends (weak fairness of the pool and of the
\* coordinator); and the next scheduled run always starts. Start is enabled
\* exactly when pc = "idle" and is the only step that leaves "idle", so
\* WF_vars(Start) is the formula []<>(pc # "idle"), written here in that form.
FairSpec ==
    InitScheduled /\ [][Next]_vars /\ WF_vars(Worker \/ Coordinator) /\ []<>(pc # "idle")

\* ------------------------------------------------------- one function call
\* One call of a function of the program on arguments drawn from small sets:
\* call holds the function's name, its arguments and, once the call has
\* returned, its result.
MaxPrompts == 2

\* The row a call starts from: the base columns play no part in the calls.
BaseRow == [h \in {"Directory Name"} |-> VStr("s1")]

AttributeKeys == {"topic", "region"}
AttributeValues == {VStr("a"), VStr("b")}

\* The prompts of a session: attributes None, or a map over some of the keys.
PromptChoices ==
    {[null |-> TRUE, attributes |-> EmptyMap]}
    \cup {[null |-> FALSE, attributes |-> m] :
             m \in UNION {[K -> AttributeValues] : K \in SUBSET AttributeKeys}}

PromptCalls ==
    {[op |-> "prompt_attributes", done |-> FALSE,
      in |-> [prompts |-> q, prompt_attributes |-> k]] :
        q \in SeqsUpTo(PromptChoices, MaxPrompts),
        k \in {<<"topic">>, <<"topic", "region">>}}

\* The largest number of files of a session process_files is called on.
MaxFiles == 2

StatOk == [reasons |-> <<>>, values |-> [h \in {"snr"} |-> VInt(30)]]
StatBad == [reasons |-> <<"snr">>, values |-> [h \in {"snr"} |-> VInt(3)]]

\* The files process_files is called on: every prompt type (input is not a
\* recorded type), skipped or not, of a corpus code that is excluded ("cx") or
\* not, with no Stat, one Stat, or two Stats of which the latest passes or fails.
FileChoices ==
    {[name |-> "f", prompttype |-> ty, skipped |-> sk, corpuscode |-> cc, stats |-> st] :
        ty \in {"recording", "image", "input"},
        sk \in {"true", "false"},
        cc \in {"c1", "cx"},
        st \in {<<>>, <<StatOk>>, <<StatBad, StatOk>>, <<StatOk, StatBad>>}}

\* Sequences of files, the file at position i named FileName(i).
NamedFiles(q) == [i \in 1..Len(q) |-> [q[i] EXCEPT !.name = FileName(i)]]

ProcessFilesCalls ==
    {[op |-> "process_files", done |-> FALSE,
      in |-> [files |-> NamedFiles(q), median_stats |-> m]] :
        q \in SeqsUpTo(FileChoices, MaxFiles), m \in BOOLEAN}

\* The items the duration is summed over: videos with no Stat, one Stat without
\* or with a duration (in milliseconds), or two Stats; and images, whose Stats
\* carry no video duration.
DurationFiles ==
    {[prompttype |-> "video", durations |-> d] :
        d \in {<<>>, <<None>>, <<VInt(2500)>>, <<VInt(2500), VInt(4000)>>}}
    \cup {[prompttype |-> "image", durations |-> d] : d \in {<<>>, <<None>>}}

DurationCalls ==
    {[op |-> "duration", done |-> FALSE, in |-> [duration |-> d, files |-> q]] :
        d \in {None, VInt(0), VInt(60)},
        q \in SeqsUpTo(DurationFiles, MaxFiles)}

\* A table for the Country column, with an entry for str(None); it also names
\* a column ("City") no row of the model has.
CountrySubstitutions ==
    [c \in {"Country", "City"} |->
        IF c = "Country"
        THEN [k \in {"usa", "None"} |-> IF k = "usa" THEN VStr("US") ELSE VStr("unknown")]
        ELSE [k \in {"x"} |-> VStr("y")]]

\* The rows the substitution loop runs on: on a MISS the computed row, which has
\* the Country key only when the session has device info; on a HIT the cached
\* row remapped, which has every header as a key, None where the cache has none.
SubstitutionRows ==
    LET computed ==
            {Update(BaseRow, [h \in {"Completed"} |-> c]) : c \in {VBool(TRUE), VBool(FALSE)}}
            \cup {Update(BaseRow, [h \in {"Completed", "Country"} |->
                                      IF h = "Completed" THEN c ELSE n]) :
                     c \in {VBool(TRUE), VBool(FALSE)},
                     n \in {VStr("usa"), VStr("usa "), VStr(" usa"), VStr("de")}}
        cached ==
            {Update(BaseRow, [h \in {"Completed"} |-> c]) :
                c \in {VBool(TRUE), VStr("Yes"), VStr("No")}}
            \cup {Update(BaseRow, [h \in {"Completed", "Country"} |->
                                      IF h = "Completed" THEN c ELSE n]) :
                     c \in {VBool(TRUE), VStr("Yes"), VStr("No")},
                     n \in {VStr("usa"), VStr("usa "), VStr("US"), VStr("de")}}
    IN  {[path |-> "miss", row |-> r] : r \in computed}
        \cup {[path |-> "hit",
                row |-> RemapRow(r, <<"Directory Name", "Completed", "Country", "Region">>)] :
                 r \in cached}

SubstituteCalls ==
    {[op |-> "substitute", done |-> FALSE,
      in |-> [path |-> r.path, row |-> r.row, substitutions |-> tb]] :
        r \in SubstitutionRows,
        tb \in {NoSubstitutions, YesNoSubstitutions, CountrySubstitutions,
                Update(YesNoSubstitutions, CountrySubstitutions)}}

\* The header list of a run with --prompt_attributes topic region, and of a run
\* that names the two attributes the other way round.
TopicRegionHeaders ==
    SessionHeadersFor([DefaultArgs EXCEPT !.prompt_attributes = <<"topic", "region">>])
RegionTopicHeaders ==
    SessionHeadersFor([DefaultArgs EXCEPT !.prompt_attributes = <<"region", "topic">>])

\* The row a run saved for s1, completed, with its two prompt attributes.
AttributeRow(topic, region) ==
    Update(ComputedRow("s1", [items |-> <<>>, completed |-> TRUE, abandoned |-> FALSE],
                       ProcessFiles("s1", <<>>, <<>>, TRUE, StatHeadersFor(DefaultArgs))),
           [h \in {"topic", "region"} |-> IF h = "topic" THEN topic ELSE region])

\* The report a run with the header list heads saved: the header row, the row
\* of s1 and a blank row.
ReportUnder(heads, topic, region) ==
    SavedWorkbook(<< PriorHeaderRow(heads), RowValues(AttributeRow(topic, region), heads),
                     [j \in 1..Len(heads) |-> None] >>,
                  << PriorHeaderRow(StatHeadersFor(DefaultArgs)) >>)

LoadCalls ==
    {[op |-> "load", done |-> FALSE,
      in |-> [file |-> ReportUnder(heads, tp, rg), session_headers |-> expected]] :
        heads \in {TopicRegionHeaders, RegionTopicHeaders, SessionHeadersFor(DefaultArgs)},
        expected \in {TopicRegionHeaders, RegionTopicHeaders},
        tp \in {VStr("a"), VStr("b"), None},
        rg \in {VStr("x"), VStr("b")}}

CallInputs ==
    PromptCalls \cup ProcessFilesCalls \cup DurationCalls \cup SubstituteCalls
        \cup LoadCalls

CallPromptAttributes ==
    /\ call.op = "prompt_attributes"
    /\ ~call.done
    /\ call' = [op |-> call.op, done |-> TRUE, in |-> call.in,
                out |-> PromptAttributes(BaseRow, call.in.prompts,
                                         call.in.prompt_attributes)]
    /\ UNCHANGED << live, fs, pc, args, headers, statHeaders, cache, task, wsSessions,
                    wsStats, drained, rowOrigin, since >>

\* process_files with the schema given and the corpus code "cx" excluded.
CallProcessFiles ==
    /\ call.op = "process_files"
    /\ ~call.done
    /\ call' = [op |-> call.op, done |-> TRUE, in |-> call.in,
                out |-> ProcessFilesOf("s1", call.in.files, TRUE,
                                       BaseStatHeaders \o SchemaProps, {"cx"},
                                       call.in.median_stats)]
    /\ UNCHANGED << live, fs, pc, args, headers, statHeaders, cache, task, wsSessions,
                    wsStats, drained, rowOrigin, since >>

CallSessionDuration ==
    /\ call.op = "duration"
    /\ ~call.done
    /\ call' = [op |-> call.op, done |-> TRUE, in |-> call.in,
                out |-> SessionDuration(call.in.duration, call.in.files)]
    /\ UNCHANGED << live, fs, pc, args, headers, statHeaders, cache, task, wsSessions,
                    wsStats, drained, rowOrigin, since >>

CallSubstitute ==
    /\ call.op = "substitute"
    /\ ~call.done
    /\ call' = [op |-> call.op, done |-> TRUE, in |-> call.in,
                out |-> Substitute(call.in.row, call.in.substitutions)]
    /\ UNCHANGED << live, fs, pc, args, headers, statHeaders, cache, task, wsSessions,
                    wsStats, drained, rowOrigin, since >>

CallLoad ==
    /\ call.op = "load"
    /\ ~call.done
    /\ call' = [op |-> call.op, done |-> TRUE, in |-> call.in,
                out |-> TryGetCachedSessions(call.in.file, call.in.session_headers)]
    /\ UNCHANGED << live, fs, pc, args, headers, statHeaders, cache, task, wsSessions,
                    wsStats, drained, rowOrigin, since >>

InitCalls ==
    /\ live = [s \in Sessions |-> NewSession]
    /\ fs = [report |-> NoFile, bak |-> NoFile]
    /\ pc = "idle"
    /\ args = DefaultArgs
    /\ headers = BaseSessionHeaders
    /\ statHeaders = BaseStatHeaders
    /\ cache = EmptyMap
    /\ task = [s \in Sessions |-> NoTask]
    /\ wsSessions = <<>>
    /\ wsStats = <<>>
    /\ drained = {}
    /\ rowOrigin = [s \in Sessions |-> NoOrigin]
    /\ since = "changed"
    /\ call \in CallInputs

NextCalls ==
    \/ CallPromptAttributes
    \/ CallProcessFiles
    \/ CallSessionDuration
    \/ CallSubstitute
    \/ CallLoad

SpecCalls == InitCalls /\ [][NextCalls]_vars

\* One run over a project whose session s1 holds image items of the kinds the
\* photo loop tells apart, with no prior report.
InitPhotos ==
    /\ live \in {[s \in Sessions |->
                    IF s = "s1"
                    THEN [items |-> q, completed |-> FALSE, abandoned |-> FALSE]
                    ELSE NewSession] :
                    q \in SeqsUpTo(PhotoKinds, MaxFiles)}
    /\ fs = [report |-> NoFile, bak |-> NoFile]
    /\ pc = "idle"
    /\ args = DefaultArgs
    /\ headers = BaseSessionHeaders
    /\ statHeaders = BaseStatHeaders
    /\ cache = EmptyMap
    /\ task = [s \in Sessions |-> NoTask]
    /\ wsSessions = <<>>
    /\ wsStats = <<>>
    /\ drained = {}
    /\ rowOrigin = [s \in Sessions |-> NoOrigin]
    /\ since = "changed"
    /\ call = NoCall

SpecPhotos == InitPhotos /\ [][NextOneRun]_vars

\* The items of a session the runs over an immutable session are followed on: a
\* recording whose Stat fails the schema, a JPEG image with embedded GPS, and
\* HEIF images with and without an Exif metadata block.
HitKinds == {"rejected", "gps", "heic", "heic_bare"}

\* The most items the immutable session holds.
MaxHitItems == 3

\* A project whose session s1 was completed or abandoned with its items before
\* the first run and s2 is a new session; no report has been written yet.
InitHits ==
    /\ live \in {[s \in Sessions |->
                    IF s = "s1"
                    THEN [items |-> q, completed |-> c, abandoned |-> ~c]
                    ELSE NewSession] :
                    q \in SeqsUpTo(HitKinds, MaxHitItems), c \in BOOLEAN}
    /\ fs = [report |-> NoFile, bak |-> NoFile]
    /\ pc = "idle"
    /\ args \in ScheduledArgs
    /\ headers = BaseSessionHeaders
    /\ statHeaders = BaseStatHeaders
    /\ cache = EmptyMap
    /\ task = [s \in Sessions |-> NoTask]
    /\ wsSessions = <<>>
    /\ wsStats = <<>>
    /\ drained = {}
    /\ rowOrigin = [s \in Sessions |-> NoOrigin]
    /\ since = "changed"
    /\ call = NoCall

\* main started with any of the scheduled command lines: the substitution
\* table may differ from one run to the next.
StartAny == \E a \in ScheduledArgs : StartRun(a)

\* Runs one after the other over a record store that does not change.
NextHits == StartAny \/ Worker \/ Coordinator

SpecHits == InitHits /\ [][NextHits]_vars

\* ------------------------------------------------------------------ claims
Decided(s) == task[s].pc \in {"photo", "done", "failed"}

CachedRow(s) == cache[VStr(s)].Session

CachedOpen(s) ==
    ~Truthy(CachedRow(s)["Completed"]) /\ ~Truthy(CachedRow(s)["Abandoned"])

\* The decision as the claim words it.
ClaimedHit(s) ==
    /\ VStr(s) \in DOMAIN cache
    /\ \/ Truthy(CachedRow(s)["Completed"])
       \/ Truthy(CachedRow(s)["Abandoned"])
       \/ CachedRow(s)["Total items"] = VInt(Len(live[s].items))
    /\ ~(CachedOpen(s) /\ Finalized(s))

\* C1: get_rows reuses the cached row exactly when a cache entry exists for the
\* session, the entry is completed, abandoned or has the live item count, and it
\* is not the case that the cache shows the session open while the live session
\* is completed or abandoned; in every other case the session is recomputed.
C1_HitExactlyWhenClaimed ==
    \A s \in Sessions : Decided(s) => (task[s].hit <=> ClaimedHit(s))

\* A session with a cache entry that is open in the cache, whose item count
\* changed, has been decided, and was recomputed.
C1_Witness ==
    \E s \in Sessions :
        /\ Decided(s)
        /\ VStr(s) \in DOMAIN cache
        /\ CachedOpen(s)
        /\ ~Finalized(s)
        /\ CachedRow(s)["Total items"] # VInt(Len(live[s].items))
        /\ ~task[s].hit

\* C2: a session's row is reused from the cache only if the live session is
\* completed or abandoned, or its live item count (as the task counted it at
\* the decision) equals the item count it had when the cached row was computed.
C2_ReuseOnlyIfImmutableOrSameCount ==
    \A s \in Sessions :
        (Decided(s) /\ task[s].hit) =>
            (Finalized(s) \/ task[s].total = task[s].src.n)

\* The data rows of a sheet whose first cell names session s.
RowsOf(sheet, s) == {i \in 2..Len(sheet) : sheet[i][1] = VStr(s)}

\* C3: in every run that completes, the Sessions table holds exactly one data
\* row for every session of the project, and no other data row.
C3_OneRowPerSession ==
    pc = "saved" =>
        /\ \A s \in DOMAIN live : Cardinality(RowsOf(fs.report.sessions, s)) = 1
        /\ Len(fs.report.sessions) = 1 + Cardinality(DOMAIN live)

\* A run has saved a report in which one session's row came from the cache and
\* another's was recomputed.
C3_Witness ==
    /\ pc = "saved"
    /\ \E s, r \in DOMAIN live : task[s].hit /\ ~task[r].hit

\* The sessions the cache-hit fidelity property speaks of: completed or
\* abandoned in the cache, with the same flags live, reused, and returned.
FinalHit(s) ==
    /\ task[s].pc = "done"
    /\ task[s].hit
    /\ CachedRow(s)["Completed"] = VBool(live[s].completed)
    /\ CachedRow(s)["Abandoned"] = VBool(live[s].abandoned)
    /\ Finalized(s)

\* The returned StatRows are the cached StatRows, each mapped onto the stat
\* header list with missing columns null.
StatsAsCached(s) ==
    LET cached == cache[VStr(s)].Stats
    IN  /\ Len(task[s].stats) = Len(cached)
        /\ \A n \in 1..Len(cached) :
              /\ DOMAIN task[s].stats[n] = Range(statHeaders)
              /\ \A h \in Range(statHeaders) :
                    task[s].stats[n][h] = Get(cached[n], h)

\* C4 as stated: the returned SessionRow holds, under every current header, the
\* cached value (null when the cache has none), and the StatRows are the cached
\* StatRows remapped.
C4_HitEqualsCachedRow ==
    \A s \in Sessions :
        FinalHit(s) =>
            /\ \A h \in Range(headers) : Get(task[s].row, h) = Get(CachedRow(s), h)
            /\ StatsAsCached(s)

\* The image items of the session that write the photo column h, in file order.
PhotoWriters(s, h) ==
    {i \in 1..Len(live[s].items) :
        /\ PromptType(live[s].items[i]) = "image"
        /\ h \in Range(PhotoHeaders(PromptName(CorpusCode(live[s].items[i]))))}

\* The image items of the session whose decoding supplies metadata (the try
\* statement of lines 619-633 assigns exif): a file Image.open identifies that
\* has an EXIF block, and a HEIF file with an Exif metadata block. A file
\* Image.open identifies that has no EXIF block raises and assigns nothing.
Supplies(s) ==
    {j \in 1..Len(live[s].items) :
        /\ PromptType(live[s].items[j]) = "image"
        /\ IF Heif(live[s].items[j])
           THEN HeifExifBlock(live[s].items[j])
           ELSE HasExif(live[s].items[j])}

\* The item whose metadata the photo loop holds when it writes the columns of
\* image item i: item i itself when its decoding supplies metadata, otherwise
\* the nearest earlier item that did.
DecodedFrom(s, i) ==
    IF i \in Supplies(s) THEN i ELSE Max({j \in Supplies(s) : j < i})

\* C4 as amended: the returned SessionRow is the cached row remapped onto the
\* header list with the substitution table applied to it (a column that is a
\* key of the table holds the table's entry for the stripped string form of the
\* cached value when there is one), except that the four photo columns of every
\* prompt name the session has an image item of are the ones the photo loop
\* wrote for the last such item in creation order: the checksum of that item's
\* file, the serialized metadata the loop held for it (the item's own, or for a
\* HEIF file without an Exif block that of the nearest earlier image that
\* supplied metadata) and the coordinates computed from that metadata and the
\* item's device info; the StatRows are the cached StatRows remapped.
C4_HitEqualsSubstitutedCachedRow ==
    \A s \in Sessions :
        FinalHit(s) =>
            /\ \A h \in Range(headers) :
                  LET cached == Get(CachedRow(s), h)
                      table == args.substitutions
                  IN  IF PhotoWriters(s, h) # {}
                      THEN LET i == Max(PhotoWriters(s, h))
                               j == DecodedFrom(s, i)
                           IN  Get(task[s].row, h) =
                                   PhotoCellsFrom(s, i, live[s].items[i],
                                                  ExifOf(s, j, live[s].items[j]))[h]
                      ELSE IF h \in DOMAIN table /\ PyStr(cached) \in DOMAIN table[h]
                      THEN Get(task[s].row, h) = table[h][PyStr(cached)]
                      ELSE Get(task[s].row, h) = cached
            /\ StatsAsCached(s)

\* A completed session was reused with its cached StatRow, the substitution
\* table changed its Completed column, and the photo loop wrote the columns of
\* one prompt name for two image items, the second a HEIF file without an Exif
\* block: the columns hold the second file's checksum and the first file's
\* metadata.
C4_Witness ==
    \E s \in Sessions :
        /\ FinalHit(s)
        /\ Len(task[s].stats) = 1
        /\ task[s].row["Completed"] = VStr("Yes")
        /\ \E h \in Range(headers) :
              /\ Cardinality(PhotoWriters(s, h)) = 2
              /\ DecodedFrom(s, Max(PhotoWriters(s, h))) # Max(PhotoWriters(s, h))
        /\ task[s].row["user_interface_photo_url"] = VStr("md5-s1-f3")
        /\ task[s].row["user_interface_photo_exif"] = VStr("exif-s1-f2")

\* C5: two runs in a row with from_scratch unset and no change to the sessions,
\* items, stats or command line in between save the same Sessions table, rows
\* in the same order, whatever the completion order of the tasks.
C5_SecondRunSavesSameTable ==
    [][(pc = "pool" /\ pc' = "saved" /\ since = "same" /\ ~args.from_scratch)
          => fs'.report.sessions = fs.report.sessions]_vars

HeaderNames(heads) == [j \in 1..Len(heads) |-> VStr(heads[j])]

\* C6: from the header rows being written to the save, the two header lists are
\* the header rows that were written, and every data row has its header row's
\* length.
C6_HeadersFixedAndRowsAligned ==
    pc \in {"pool", "saved"} =>
        /\ HeaderNames(headers) = wsSessions[1]
        /\ HeaderNames(statHeaders) = wsStats[1]
        /\ \A i \in 1..Len(wsSessions) : Len(wsSessions[i]) = Len(wsSessions[1])
        /\ \A i \in 1..Len(wsStats) : Len(wsStats[i]) = Len(wsStats[1])

\* C7: while the pool runs, a step of a worker task changes neither the header
\* lists, nor the cache map, nor the output tables; and a row is appended to the
\* Sessions table only by the coordinator draining a task that has completed.
C7_WorkersWriteNoSharedState ==
    [][pc = "pool" =>
          /\ (task' # task =>
                UNCHANGED << headers, statHeaders, cache, wsSessions, wsStats >>)
          /\ (wsSessions' # wsSessions =>
                \E s \in Sessions : /\ task[s].pc = "done"
                                   /\ s \notin drained
                                   /\ drained' = drained \cup {s})]_vars

\* The first table of the prior report, as the loader reads it, has a header
\* row whose set of values is not the set of expected session headers.
PriorHeaderMismatch(file, session_headers) ==
    /\ file.exists
    /\ Len(file.sessions) >= 1
    /\ Range(ReadSheet(file.sessions)[1]) # {VStr(h) : h \in Range(session_headers)}

\* C8: when main loads the cache, a prior report whose header set differs from
\* the expected session headers gives an empty mapping, is left unchanged, and
\* is copied to the .bak path; with no prior report the mapping is empty and
\* no file is touched.
C8_MismatchBacksUpAndEmptiesCache ==
    [][(pc = "idle" /\ pc' = "pool" /\ ~args'.from_scratch) =>
          /\ PriorHeaderMismatch(fs.report, headers') =>
                (cache' = EmptyMap /\ fs'.report = fs.report /\ fs'.bak = fs.report)
          /\ ~fs.report.exists => (cache' = EmptyMap /\ fs' = fs)]_vars

\* A run has loaded a prior report that holds a row of s1 under other headers:
\* the cache is empty and the .bak file is the report.
C8_Witness ==
    /\ pc = "pool"
    /\ ~args.from_scratch
    /\ fs.report.exists
    /\ Len(fs.report.sessions) >= 2
    /\ fs.bak = fs.report
    /\ cache = EmptyMap

\* C9: once a session is completed or abandoned, some run at or after that
\* point recomputes it from the live data.
C9_RecomputedAfterFinalizing ==
    \A s \in Sessions :
        <>Finalized(s) => <>(Finalized(s) /\ Decided(s) /\ ~task[s].hit)

\* C10: when a session's task raises, no SessionRow and no StatRow of that
\* session is in the output tables, the run does not reach the save, and the
\* report file stays as it was.
C10_FailedTaskAbortsRun ==
    /\ [](\A s \in Sessions :
            task[s].pc = "failed" =>
                /\ RowsOf(wsSessions, s) = {}
                /\ RowsOf(wsStats, s) = {}
                /\ pc # "saved")
    /\ [][(\E s \in Sessions : task[s].pc = "failed") => fs'.report = fs.report]_vars

\* A run over a prior report was aborted by a task that had a StatRow to give,
\* after the row of the other session had been appended.
C10_Witness ==
    /\ pc = "aborted"
    /\ fs.report.exists
    /\ Len(wsSessions) = 2
    /\ \E s \in Sessions :
          /\ task[s].pc = "failed"
          /\ \E i \in 1..Len(live[s].items) : live[s].items[i] = "rejected"

\* C11: a run started with --from_scratch backs the existing report up (copies
\* it to the .bak path) and starts from an empty cache, so that every session
\* is recomputed.
C11_FromScratchBacksUpAndRecomputes ==
    [][(pc = "idle" /\ pc' = "pool" /\ args'.from_scratch) =>
          /\ cache' = EmptyMap
          /\ fs.report.exists => fs'.bak = fs.report]_vars

\* The value the first prompt (in session order) that has attributes and
\* carries the key gives it; None when no prompt does.
FirstSupplied(prompts, key) ==
    LET suppliers == {i \in 1..Len(prompts) :
                        ~prompts[i].null /\ key \in DOMAIN prompts[i].attributes}
    IN  IF suppliers = {} THEN None
        ELSE prompts[CHOOSE i \in suppliers : \A j \in suppliers : i <= j].attributes[key]

\* C12: on the recompute path, every requested prompt-attribute key holds the
\* value of the first prompt, in session order, whose non-null attributes
\* supply it: a later prompt neither overwrites nor clears it.
C12_FirstPromptWins ==
    (call.op = "prompt_attributes" /\ call.done) =>
        \A k \in Range(call.in.prompt_attributes) :
            Get(call.out, k) = FirstSupplied(call.in.prompts, k)

\* The files C13 speaks of: not skipped, of a recorded type, of a corpus code
\* that is not excluded.
Eligible(file) ==
    /\ file.skipped # "true"
    /\ file.prompttype \in {"recording", "video", "image"}
    /\ file.corpuscode # "cx"

\* C13: after process_files with a schema, there is exactly one StatRow for each
\* eligible file whose most recent Stat fails validation and none for any other
\* file; rejected_items is the number of StatRows; missing_stats is the number
\* of eligible files with no Stat; and in median mode a file whose latest Stat
\* passes adds its sample and no StatRow.
C13_StatRowsAndCounters ==
    (call.op = "process_files" /\ call.done) =>
        LET files == call.in.files
            out == call.out
            rowsOf(i) == {n \in 1..Len(out.stat_rows) :
                             out.stat_rows[n]["File"] = VStr(files[i].name)}
            mustFail(i) == /\ Eligible(files[i])
                           /\ files[i].stats # <<>>
                           /\ files[i].stats[Len(files[i].stats)] = StatBad
            passing == {i \in 1..Len(files) :
                           /\ Eligible(files[i])
                           /\ files[i].stats # <<>>
                           /\ files[i].stats[Len(files[i].stats)] = StatOk
                           /\ files[i].prompttype = "recording"}
        IN  /\ \A i \in 1..Len(files) :
                  Cardinality(rowsOf(i)) = IF mustFail(i) THEN 1 ELSE 0
            /\ Len(out.stat_rows) = Cardinality({i \in 1..Len(files) : mustFail(i)})
            /\ out.rejected_items = Len(out.stat_rows)
            /\ out.missing_stats =
                  Cardinality({i \in 1..Len(files) :
                                  Eligible(files[i]) /\ files[i].stats = <<>>})
            /\ call.in.median_stats =>
                  Cardinality({n \in 1..Len(out.samples["snr"]) :
                                  out.samples["snr"][n] = VInt(30)})
                      = Cardinality(passing)

\* process_files has returned for two files, one whose latest Stat fails after
\* an older one passed, and one with no Stat, in median mode.
C13_Witness ==
    /\ call.op = "process_files"
    /\ call.done
    /\ call.in.median_stats
    /\ Len(call.out.stat_rows) = 1
    /\ call.out.missing_stats = 1
    /\ \E i \in 1..Len(call.in.files) :
          Eligible(call.in.files[i]) /\ call.in.files[i].stats = <<StatOk, StatBad>>

\* The duration, in milliseconds, of an item's latest Stat; 0 for an item with
\* no Stat or no duration value.
LatestMs(file) ==
    IF file.durations = <<>> \/ file.durations[Len(file.durations)] = None THEN 0
    ELSE file.durations[Len(file.durations)][2]

RECURSIVE SumLatestMs(_)
SumLatestMs(files) ==
    IF files = <<>> THEN 0 ELSE LatestMs(Head(files)) + SumLatestMs(Tail(files))

\* C14: on the recompute path the Duration column is the session's recorded
\* duration when it has one; otherwise it is the sum over the session's items of
\* the duration of the item's latest Stat / 1000, an item with no Stat or no
\* duration value adding 0, and the session never fails over it, also when an
\* item has more than one Stat.
C14_DurationRecordedOrSummed ==
    (call.op = "duration" /\ call.done) =>
        /\ ~call.out.raised
        /\ call.out.value = IF call.in.duration # None THEN call.in.duration
                            ELSE VFloat(SumLatestMs(call.in.files))

\* C15 as stated: on either path, a column of the row that is a key of the
\* table holds the table's entry for the string form of its value when the table
\* has one and is unchanged when it has none; every other column is unchanged.
C15_SubstitutedByStringForm ==
    (call.op = "substitute" /\ call.done) =>
        /\ DOMAIN call.out = DOMAIN call.in.row
        /\ \A k \in DOMAIN call.in.row :
              LET table == call.in.substitutions
                  form == StrOf(call.in.row[k])
              IN  call.out[k] = IF k \in DOMAIN table /\ form \in DOMAIN table[k]
                                THEN table[k][form]
                                ELSE call.in.row[k]

\* C15 as amended: the entry looked up is the one for the string form of the
\* value with its leading and trailing whitespace removed.
C15_SubstitutedByStrippedStringForm ==
    (call.op = "substitute" /\ call.done) =>
        /\ DOMAIN call.out = DOMAIN call.in.row
        /\ \A k \in DOMAIN call.in.row :
              LET table == call.in.substitutions
                  form == Strip(StrOf(call.in.row[k]))
              IN  call.out[k] = IF k \in DOMAIN table /\ form \in DOMAIN table[k]
                                THEN table[k][form]
                                ELSE call.in.row[k]

\* On a hit, a cached country with a trailing blank was replaced, a Completed
\* value without an entry ("Yes") was kept, and a column outside the table kept
\* its null.
C15_Witness ==
    /\ call.op = "substitute"
    /\ call.done
    /\ call.in.path = "hit"
    /\ call.in.row["Country"] = VStr("usa ")
    /\ call.out["Country"] = VStr("US")
    /\ call.in.row["Completed"] = VStr("Yes")
    /\ "Completed" \in DOMAIN call.in.substitutions
    /\ call.out["Completed"] = VStr("Yes")
    /\ call.out["Region"] = None

\* The value a data row of the report stores under the column named name.
StoredUnder(file, i, name) ==
    LET j == CHOOSE c \in 1..Len(file.sessions[1]) : file.sessions[1][c] = VStr(name)
    IN  IF j <= Len(file.sessions[i]) THEN file.sessions[i][j] ELSE None

\* C17: when try_get_cached_sessions accepts a prior report (its header set is
\* the expected header set), there is one entry per non-blank data row, keyed by
\* the value the row stores under the session-identity column, and the entry
\* maps every column name to the value the row stores under that name, also when
\* the report's columns are in another order than the expected list.
C17_EntriesMapNamesToStoredValues ==
    (/\ call.op = "load"
     /\ call.done
     /\ Range(call.in.file.sessions[1]) = {VStr(h) : h \in Range(call.in.session_headers)})
    =>
        LET file == call.in.file
            data == {i \in 2..Len(file.sessions) :
                        \E j \in 1..Len(file.sessions[i]) : file.sessions[i][j] # None}
        IN  /\ ~call.out.backup
            /\ DOMAIN call.out.sessions = {StoredUnder(file, i, "Directory Name") : i \in data}
            /\ \A i \in data :
                  \A h \in Range(call.in.session_headers) :
                      call.out.sessions[StoredUnder(file, i, "Directory Name")].Session[h]
                          = StoredUnder(file, i, h)

\* The image items of session s the photo loop has gone through that were the
\* last to write the photo columns of their prompt name.
Written(s) ==
    {i \in 1..Len(live[s].items) :
        /\ task[s].pc \in {"photo", "done"}
        /\ i < task[s].i
        /\ PromptType(live[s].items[i]) = "image"
        /\ \A j \in (i + 1)..(task[s].i - 1) :
              PromptType(live[s].items[j]) = "image" =>
                  PromptName(CorpusCode(live[s].items[j]))
                      # PromptName(CorpusCode(live[s].items[i]))}

\* The coordinate pair the row holds for the prompt name of item kind k.
WrittenPair(s, k) ==
    << Get(task[s].row, PromptName(CorpusCode(k)) \o "_photo_lat"),
       Get(task[s].row, PromptName(CorpusCode(k)) \o "_photo_lng") >>

\* C16: for every image item, the pair written to the row is the pair computed
\* from the embedded GPS metadata whenever the metadata carries both coordinates,
\* a coordinate of 0 included; the device's pair is used only when embedded GPS
\* is absent; and the two coordinates written come from the same source.
C16_EmbeddedGpsFirst ==
    \A s \in Sessions : \A i \in Written(s) :
        LET k == live[s].items[i]
            lat == GpsLatitude(k)
            lng == GpsLongitude(k)
            device == DeviceInfoOf(k).location
            embedded == << IF lat = None THEN None ELSE ParseLngLat(lat),
                           IF lng = None THEN None ELSE ParseLngLat(lng) >>
            reported == << Get(device, "latitude"), Get(device, "longitude") >>
        IN  ~Heif(k) =>
                /\ (lat # None /\ lng # None) => WrittenPair(s, k) = embedded
                /\ WrittenPair(s, k) # embedded => (lat = None /\ lng = None)
                /\ WrittenPair(s, k) \in {embedded, reported}

\* C18: the serialized metadata and the EXIF-derived coordinates written for an
\* image item are decoded from the item's own file, never from an earlier item
\* of the session, also when the item is a HEIF file without an Exif block.
C18_MetadataOfOwnFile ==
    \A s \in Sessions : \A i \in Written(s) :
        LET k == live[s].items[i]
            name == PromptName(CorpusCode(k))
        IN  /\ \A j \in 1..Len(live[s].items) :
                  j # i => Get(task[s].row, name \o "_photo_exif")
                               # VStr("exif-" \o s \o "-" \o FileName(j))
            /\ (GpsLatitude(k) = None /\ DeviceInfoOf(k).null) =>
                  WrittenPair(s, k) = << None, None >>

====
